---- MODULE Spec2Model ----
(***************************************************************************)
(* AES128-CTR on top of the nRF5x AES128-ECB peripheral                    *)
(* (chips/nrf5x/src/aes.rs).  The driver (AesECB), the ECB peripheral it   *)
(* drives through its registers and the ECB_DATA DMA buffer, and a client  *)
(* of the symmetric_encryption HIL are one state machine.                  *)
(***************************************************************************)
EXTENDS Integers, Sequences, FiniteSets, TLC

(***************************************************************************)
(* Program constants                                                       *)
(***************************************************************************)
ECB_DATA_LEN == 48
KEY_START == 0
PLAINTEXT_START == 16
PLAINTEXT_END == 32
MAX_LENGTH == 128
AES128_BLOCK_SIZE == 16
AES128_KEY_SIZE == 16
ByteMod == 256
LimbMod == 65536

(***************************************************************************)
(* Bounds of the model                                                     *)
(***************************************************************************)
\* length of the destination buffers the client owns
DestLen == 132
\* byte the client's destination buffers are filled with before a request
DestFill == 170
\* length of the plaintext buffers the client owns
SrcLen == 130
\* accepted crypt calls plus events outside the protocol in one run (a call
\* that touches a request in flight, a hardware fault, a spurious interrupt)
MaxEvents == 2

Min(a, b) == IF a < b THEN a ELSE b

\* ceil(n / AES128_BLOCK_SIZE)
Blocks(n) == (n + AES128_BLOCK_SIZE - 1) \div AES128_BLOCK_SIZE

(***************************************************************************)
(* Byte strings are functions on 0..n-1, indexed as the source indexes     *)
(* its slices.                                                             *)
(***************************************************************************)
Len0(b) == Cardinality(DOMAIN b)

Zeros(n) == [i \in 0..(n - 1) |-> 0]

Slice(b, from, to) == [i \in 0..(to - from - 1) |-> b[from + i]]

(***************************************************************************)
(* The values the client passes in                                         *)
(***************************************************************************)
\* a 16-byte key that is not all zero
KeyA == [i \in 0..15 |-> (17 * i + 3) % ByteMod]

\* a counter whose two low bytes carry on the first increment
IvCarry == [i \in 0..15 |-> IF i >= 14 THEN 255 ELSE IF i = 13 THEN 7 ELSE 0]

\* the counter that wraps to zero on the first increment
IvMax == [i \in 0..15 |-> 255]

\* keys and IVs of the wrong length
Short15 == [i \in 0..14 |-> 90]
Long17 == [i \in 0..16 |-> 90]

GoodKeys == {KeyA}
BadKeys == {Short15, Long17}
GoodIvs == {IvCarry, IvMax}
BadIvs == {Short15, Long17}

\* the client's plaintext
Plain == [i \in 0..(SrcLen - 1) |-> (29 * i + 101) % ByteMod]

\* a destination buffer as the client hands it over
FreshDest == [i \in 0..(DestLen - 1) |-> DestFill]

\* (start_index, stop_index) of the crypt calls
Ranges ==
    { <<0, 0>>, <<0, 1>>, <<0, 40>>, <<0, MAX_LENGTH>>,
      <<0, MAX_LENGTH + 1>>, <<16, 32>>, <<2, MAX_LENGTH + 2>>, <<3, 2>> }

\* stop_index - start_index where that is not negative
RangeLen(r) == IF r[2] >= r[1] THEN r[2] - r[1] ELSE 0

None == [some |-> FALSE]
Some(id, data) == [some |-> TRUE, id |-> id, data |-> data]

(***************************************************************************)
(* usize arithmetic.  The kernel is built in release mode, where unsigned  *)
(* subtraction wraps modulo 2^32; a word is kept as two 16-bit limbs.      *)
(***************************************************************************)
Word(n) == [hi |-> n \div LimbMod, lo |-> n % LimbMod]

\* a variant that saturates at 0
WrappingSub_Saturating(a, b) ==
    IF a >= b THEN Word(a - b) ELSE Word(0)

\* a - b modulo 2^32, for 0 <= a, b < 2^16
WrappingSub(a, b) ==
    IF a >= b THEN Word(a - b)
    ELSE [hi |-> LimbMod - 1, lo |-> LimbMod - (b - a)]

\* w <= n, for 0 <= n < 2^16
WordLeq(w, n) == w.hi = 0 /\ w.lo <= n

(***************************************************************************)
(* The ECB peripheral's block cipher, as an abstract function of the key   *)
(* and the 16-byte cleartext block.                                        *)
(***************************************************************************)
AES128_ECB_Encrypt(key, block) ==
    [j \in 0..15 |->
        (3 * key[j] + 11 * key[(j + 5) % 16]
         + 5 * block[j] + 7 * block[(j + 1) % 16] + j + 1) % ByteMod]

KeyOf(data) == Slice(data, KEY_START, KEY_START + AES128_KEY_SIZE)
CtrOf(data) == Slice(data, PLAINTEXT_START, PLAINTEXT_END)

\* what one block operation leaves in the DMA buffer
EcbBlock(data) ==
    [i \in 0..(ECB_DATA_LEN - 1) |->
        IF i >= PLAINTEXT_END
        THEN AES128_ECB_Encrypt(KeyOf(data), CtrOf(data))[i - PLAINTEXT_END]
        ELSE data[i]]

(***************************************************************************)
(* update_ctr: for i in (PLAINTEXT_START..PLAINTEXT_END).rev(), add one to *)
(* ECB_DATA[i] (u8, wrapping) and stop at the first byte that is not zero  *)
(* afterwards.  CtrStep(data, i) is the loop from index i downwards.       *)
(***************************************************************************)
\* a variant whose carry runs on below the counter field
RECURSIVE CtrStep_IntoKey(_, _)
CtrStep_IntoKey(data, i) ==
    IF i < KEY_START THEN data
    ELSE LET d == [data EXCEPT ![i] = (data[i] + 1) % ByteMod]
         IN  IF d[i] # 0 THEN d ELSE CtrStep_IntoKey(d, i - 1)

RECURSIVE CtrStep(_, _)
CtrStep(data, i) ==
    IF i < PLAINTEXT_START THEN data
    ELSE LET d == [data EXCEPT ![i] = (data[i] + 1) % ByteMod]
         IN  IF d[i] # 0 THEN d ELSE CtrStep(d, i - 1)

\* a variant that adds one to the last byte only
update_ctr_NoCarry(data) ==
    [data EXCEPT ![PLAINTEXT_END - 1] = (data[PLAINTEXT_END - 1] + 1) % ByteMod]

update_ctr(data) == CtrStep(data, PLAINTEXT_END - 1)

\* the counter as the digits of a big-endian integer, plus n
RECURSIVE CtrPlus(_, _)
CtrPlus(ctr, n) ==
    IF n = 0 THEN ctr
    ELSE LET carry(i) == \A j \in (i + 1)..15 : ctr[j] = ByteMod - 1
         IN  CtrPlus([i \in 0..15 |->
                        IF carry(i) THEN (ctr[i] + 1) % ByteMod ELSE ctr[i]],
                     n - 1)

VARIABLES
    ECB_DATA,        \* static mut ECB_DATA: [u8; 48]
    keystream,       \* AesECB.keystream
    current_idx,     \* AesECB.current_idx
    start_idx,       \* AesECB.start_idx
    end_idx,         \* AesECB.end_idx
    input,           \* AesECB.input  (TakeCell)
    output,          \* AesECB.output (TakeCell)
    client,          \* AesECB.client (OptionalCell): is a client set
    event_endecb,    \* register EVENTS_ENDECB
    event_errorecb,  \* register EVENTS_ERRORECB
    inten,           \* register INTEN, bits ENDECB and ERRORECB
    ecbdataptr,      \* register ECBDATAPTR points at ECB_DATA
    ecb_running,     \* the peripheral is encrypting a block
    pending,         \* the peripheral's interrupt is pending in the kernel
    panicked,        \* the kernel has panicked
    ret,             \* what the call that was the last step returned
    req,             \* the last accepted crypt call, as it was made
    nstarted,        \* block operations started for req
    ncallbacks,      \* crypt_done calls since req was accepted
    cb,              \* the arguments of the last crypt_done
    prev,            \* the accepted call before req, and how it ended
    overrun,         \* for req, STARTECB was written while a block was running
    naccepted,       \* accepted crypt calls so far
    ndisturb         \* events outside the protocol so far, crypt calls aside

driver == <<ECB_DATA, keystream, current_idx, start_idx, end_idx, input, output, client>>
regs == <<event_endecb, event_errorecb, inten, ecbdataptr, ecb_running, pending>>
ghost == <<req, nstarted, ncallbacks, cb, prev, overrun, naccepted, ndisturb>>
vars == <<driver, regs, panicked, ret, ghost>>

NoReq == [valid |-> FALSE]
NoRet == [op |-> "none"]

\* AesECB::new, ECB_DATA as initialised, the peripheral after reset
Init ==
    /\ ECB_DATA = Zeros(ECB_DATA_LEN)
    /\ keystream = Zeros(MAX_LENGTH)
    /\ current_idx = 0
    /\ start_idx = 0
    /\ end_idx = 0
    /\ input = None
    /\ output = None
    /\ client = FALSE
    /\ event_endecb = 0
    /\ event_errorecb = 0
    /\ inten = FALSE
    /\ ecbdataptr = FALSE
    /\ ecb_running = FALSE
    /\ pending = FALSE
    /\ panicked = FALSE
    /\ ret = NoRet
    /\ req = NoReq
    /\ nstarted = 0
    /\ ncallbacks = 0
    /\ cb = None
    /\ prev = NoReq
    /\ overrun = FALSE
    /\ naccepted = 0
    /\ ndisturb = 0

(***************************************************************************)
(* Helpers of the actions                                                  *)
(***************************************************************************)
\* a variant that adds the bytes
Xor_Add(a, b) == (a + b) % ByteMod

\* a ^ b on bytes
RECURSIVE Xor(_, _)
Xor(a, b) ==
    IF a = 0 /\ b = 0 THEN 0
    ELSE (((a % 2) + (b % 2)) % 2) + 2 * Xor(a \div 2, b \div 2)

\* the engine holds the buffers of a request
InFlight == input.some

\* The kernel marks the peripheral's interrupt pending as soon as an enabled
\* event is set, and calls handle_interrupt for it later.
Latch(p, en, endecb, errorecb) == p \/ (en /\ (endecb = 1 \/ errorecb = 1))

\* req, once something outside the protocol has happened to it in flight
Touched == IF InFlight THEN [req EXCEPT !.clean = FALSE] ELSE req

\* the run has room for one more accepted call or event outside the protocol
Budget == naccepted + ndisturb < MaxEvents

(***************************************************************************)
(* AES128::enable (set_dma) and AES128::set_client                         *)
(***************************************************************************)
enable ==
    /\ ~panicked
    /\ ecbdataptr' = TRUE
    /\ ret' = NoRet
    /\ UNCHANGED <<driver, event_endecb, event_errorecb, inten, ecb_running,
                   pending, panicked, ghost>>

set_client ==
    /\ ~panicked
    /\ client' = TRUE
    /\ ret' = NoRet
    /\ UNCHANGED <<ECB_DATA, keystream, current_idx, start_idx, end_idx, input,
                   output, regs, panicked, ghost>>

(***************************************************************************)
(* AES128::set_key and AES128::set_iv                                      *)
(***************************************************************************)
\* ECB_DATA with bytes written from offset off on
Store(data, off, bytes) ==
    [i \in 0..(ECB_DATA_LEN - 1) |->
        IF i >= off /\ i < off + Len0(bytes) THEN bytes[i - off] ELSE data[i]]

\* a variant that stores the bytes before it looks at the length
set_key_StoresFirst(key) ==
    /\ ~panicked
    /\ ECB_DATA' = Store(ECB_DATA, KEY_START, key)
    /\ ret' = [op |-> "set_key", len |-> Len0(key),
               result |-> IF Len0(key) # AES128_KEY_SIZE THEN "INVAL" ELSE "Ok"]
    /\ UNCHANGED <<keystream, current_idx, start_idx, end_idx, input, output,
                   client, regs, panicked, nstarted, ncallbacks, cb, prev, overrun,
                   naccepted>>

set_key(key) ==
    /\ ~panicked
    /\ IF Len0(key) # AES128_KEY_SIZE
       THEN /\ ret' = [op |-> "set_key", len |-> Len0(key), result |-> "INVAL"]
            /\ UNCHANGED ECB_DATA
       ELSE /\ ECB_DATA' = Store(ECB_DATA, KEY_START, key)
            /\ ret' = [op |-> "set_key", len |-> Len0(key), result |-> "Ok"]
    /\ UNCHANGED <<keystream, current_idx, start_idx, end_idx, input, output,
                   client, regs, panicked, nstarted, ncallbacks, cb, prev, overrun,
                   naccepted>>

\* a variant that stores the IV from the start of the buffer
set_iv_AtKey(iv) ==
    /\ ~panicked
    /\ IF Len0(iv) # AES128_BLOCK_SIZE
       THEN /\ ret' = [op |-> "set_iv", len |-> Len0(iv), result |-> "INVAL"]
            /\ UNCHANGED ECB_DATA
       ELSE /\ ECB_DATA' = Store(ECB_DATA, KEY_START, iv)
            /\ ret' = [op |-> "set_iv", len |-> Len0(iv), result |-> "Ok"]
    /\ UNCHANGED <<keystream, current_idx, start_idx, end_idx, input, output,
                   client, regs, panicked, nstarted, ncallbacks, cb, prev, overrun,
                   naccepted>>

set_iv(iv) ==
    /\ ~panicked
    /\ IF Len0(iv) # AES128_BLOCK_SIZE
       THEN /\ ret' = [op |-> "set_iv", len |-> Len0(iv), result |-> "INVAL"]
            /\ UNCHANGED ECB_DATA
       ELSE /\ ECB_DATA' = Store(ECB_DATA, PLAINTEXT_START, iv)
            /\ ret' = [op |-> "set_iv", len |-> Len0(iv), result |-> "Ok"]
    /\ UNCHANGED <<keystream, current_idx, start_idx, end_idx, input, output,
                   client, regs, panicked, nstarted, ncallbacks, cb, prev, overrun,
                   naccepted>>

(***************************************************************************)
(* AesECB::crypt: clear EVENTS_ENDECB, write 1 to TASKS_STARTECB, enable   *)
(* the interrupts.  The register values it leaves behind.                  *)
(***************************************************************************)
\* a variant that leaves EVENTS_ENDECB as it is
StartEcb_NoClear ==
    /\ event_endecb' = event_endecb
    /\ ecb_running' = TRUE
    /\ inten' = TRUE

StartEcb ==
    /\ event_endecb' = 0
    /\ ecb_running' = TRUE
    /\ inten' = TRUE

(***************************************************************************)
(* AES128::crypt(source, dest, start_index, stop_index)                    *)
(***************************************************************************)
\* a variant that compares with <
FitsMax_Strict(start_index, stop_index) ==
    WordLeq(WrappingSub(stop_index, start_index), MAX_LENGTH - 1)

\* if stop_index - start_index <= MAX_LENGTH
FitsMax(start_index, stop_index) ==
    WordLeq(WrappingSub(stop_index, start_index), MAX_LENGTH)

Accepts(source, start_index, stop_index) ==
    source.some /\ FitsMax(start_index, stop_index)

\* what the ghost variables keep of a request that is replaced
Ended ==
    IF req.valid
    THEN [valid |-> TRUE, key0 |-> req.key0, ctr0 |-> req.ctr0,
          start |-> req.start, end |-> req.end, clean |-> req.clean,
          done |-> ncallbacks,
          plain |-> Slice(req.source.data, 0, req.end - req.start),
          result |-> IF cb.some THEN Slice(cb.dest.data, req.start, req.end)
                     ELSE Zeros(0)]
    ELSE NoReq

\* a variant that keeps the destination
CryptInval_KeepsDest(source, dest) ==
    /\ ret' = [op |-> "crypt", accepted |-> FALSE, err |-> "INVAL",
               source |-> source, dest |-> dest]
    /\ output' = dest
    /\ UNCHANGED <<ECB_DATA, keystream, current_idx, start_idx, end_idx, input,
                   client, regs, req, nstarted, ncallbacks, cb, prev, overrun,
                   naccepted>>

\* None => Some((Err(ErrorCode::INVAL), source, dest))
CryptInval(source, dest) ==
    /\ ret' = [op |-> "crypt", accepted |-> FALSE, err |-> "INVAL",
               source |-> source, dest |-> dest]
    /\ UNCHANGED <<driver, regs, req, nstarted, ncallbacks, cb, prev, overrun,
                   naccepted>>

\* a variant that leaves the cursor where it is
CryptStart_KeepsCursor(source, dest, start_index, stop_index) ==
    /\ input' = source
    /\ output' = dest
    /\ current_idx' = current_idx
    /\ start_idx' = start_index
    /\ end_idx' = stop_index
    /\ StartEcb
    /\ overrun' = ecb_running
    /\ pending' = Latch(pending, inten', event_endecb', event_errorecb)
    /\ ret' = [op |-> "crypt", accepted |-> TRUE]
    /\ req' = [valid |-> TRUE, source |-> source, dest |-> dest,
               start |-> start_index, end |-> stop_index,
               key0 |-> KeyOf(ECB_DATA), ctr0 |-> CtrOf(ECB_DATA),
               client |-> client,
               clean |-> ~InFlight /\ ~ecb_running /\ ~pending
                         /\ event_errorecb = 0,
               overlap |-> InFlight,
               disabled |-> FALSE,
               idle_irq |-> FALSE]
    /\ prev' = Ended
    /\ nstarted' = 1
    /\ ncallbacks' = 0
    /\ cb' = None
    /\ naccepted' = naccepted + 1
    /\ UNCHANGED <<ECB_DATA, keystream, client, event_errorecb, ecbdataptr>>

\* replace buffers, configure buffer offsets, start crypt, None
CryptStart(source, dest, start_index, stop_index) ==
    /\ input' = source
    /\ output' = dest
    /\ current_idx' = 0
    /\ start_idx' = start_index
    /\ end_idx' = stop_index
    /\ StartEcb
    /\ overrun' = ecb_running
    /\ pending' = Latch(pending, inten', event_endecb', event_errorecb)
    /\ ret' = [op |-> "crypt", accepted |-> TRUE]
    /\ req' = [valid |-> TRUE, source |-> source, dest |-> dest,
               start |-> start_index, end |-> stop_index,
               key0 |-> KeyOf(ECB_DATA), ctr0 |-> CtrOf(ECB_DATA),
               client |-> client,
               clean |-> ~InFlight /\ ~ecb_running /\ ~pending
                         /\ event_errorecb = 0,
               overlap |-> InFlight,
               disabled |-> FALSE,
               idle_irq |-> FALSE]
    /\ prev' = Ended
    /\ nstarted' = 1
    /\ ncallbacks' = 0
    /\ cb' = None
    /\ naccepted' = naccepted + 1
    /\ UNCHANGED <<ECB_DATA, keystream, client, event_errorecb, ecbdataptr>>

\* Some((Err(ErrorCode::SIZE), Some(src), dest))
CryptSize(source, dest, start_index, stop_index) ==
    /\ ret' = [op |-> "crypt", accepted |-> FALSE, err |-> "SIZE",
               source |-> source, dest |-> dest,
               start |-> start_index, stop |-> stop_index]
    /\ UNCHANGED <<driver, regs, req, nstarted, ncallbacks, cb, prev, overrun,
                   naccepted>>

crypt(source, dest, start_index, stop_index) ==
    /\ ~panicked
    /\ IF ~source.some
       THEN CryptInval(source, dest)
       ELSE IF FitsMax(start_index, stop_index)
       THEN CryptStart(source, dest, start_index, stop_index)
       ELSE CryptSize(source, dest, start_index, stop_index)
    /\ UNCHANGED panicked

\* a variant that leaves the interrupts as they are
disable_interrupts_Keeps(en) == en

\* INTENCLR with ENDECB and ERRORECB set: what is left of INTEN
disable_interrupts(en) == FALSE

(***************************************************************************)
(* AES128::disable: writes Task::ENABLE::CLEAR, that is 0, to              *)
(* TASKS_STOPECB, which triggers no task, and disables the interrupts.     *)
(***************************************************************************)
disable ==
    /\ ~panicked
    /\ inten' = disable_interrupts(inten)
    /\ ret' = NoRet
    /\ UNCHANGED <<driver, event_endecb, event_errorecb, ecbdataptr, ecb_running,
                   pending, panicked, nstarted, ncallbacks, cb, prev, overrun,
                   naccepted>>

(***************************************************************************)
(* AesECB::handle_interrupt                                                *)
(***************************************************************************)
\* a variant that does not look at the event
EndOfBlock_Any(endecb) == endecb \in {0, 1}

\* if self.registers.event_endecb.get() == 1
EndOfBlock(endecb) == endecb = 1

\* a variant that takes a whole block whatever the cursor
Take_Always(current, end) == AES128_BLOCK_SIZE

\* let take = match end_idx.checked_sub(current_idx) { ... }
Take(current, end) ==
    IF end >= current THEN Min(end - current, AES128_BLOCK_SIZE) ELSE 0

\* a variant that writes every block at the start of the accumulator
AppendKeystream_AtZero(ks, data, current, take) ==
    [i \in 0..(MAX_LENGTH - 1) |->
        IF i < take THEN data[i + PLAINTEXT_END] ELSE ks[i]]

\* for i in current_idx..current_idx + take { ks[i] = ECB_DATA[i - current_idx + PLAINTEXT_END] }
AppendKeystream(ks, data, current, take) ==
    [i \in 0..(MAX_LENGTH - 1) |->
        IF i >= current /\ i < current + take
        THEN data[i - current + PLAINTEXT_END]
        ELSE ks[i]]

\* a variant that indexes the keystream by the position in the destination
XorInto_KsByDest(buf, slice, ks, start, end) ==
    [i \in DOMAIN buf |->
        IF i >= start /\ i < end THEN Xor(ks[i], slice[i - start])
        ELSE buf[i]]

\* for ((i, out), inp) in buf[start..end].iter_mut().enumerate().zip(slice[0..len].iter())
\*     { *out = ks[i] ^ *inp }
XorInto(buf, slice, ks, start, end) ==
    [i \in DOMAIN buf |->
        IF i >= start /\ i < end THEN Xor(ks[i - start], slice[i - start])
        ELSE buf[i]]

\* client.map(move |client| client.crypt_done(Some(slice), buf))
CryptDone(slice, buf) == [some |-> TRUE, source |-> slice, dest |-> buf]

handle_interrupt ==
    LET take == Take(current_idx, end_idx)
        oob == take > 0 /\ current_idx + take > MAX_LENGTH
        cur1 == current_idx + take
        ks1 == AppendKeystream(keystream, ECB_DATA, current_idx, take)
        data1 == IF take > 0 THEN update_ctr(ECB_DATA) ELSE ECB_DATA
        more == cur1 < end_idx
        combine == ~more /\ input.some /\ output.some
        badslice == \/ start_idx > end_idx
                    \/ end_idx > Len0(output.data)
                    \/ end_idx - start_idx > Len0(input.data)
        buf == [output EXCEPT !.data =
                    XorInto(output.data, input.data, ks1, start_idx, end_idx)]
    IN
    /\ ~panicked
    /\ IF ~EndOfBlock(event_endecb)
       THEN \* only disable_interrupts
            /\ inten' = disable_interrupts(inten)
            /\ pending' = FALSE
            /\ UNCHANGED <<driver, event_endecb, ecb_running, panicked,
                           nstarted, ncallbacks, cb, overrun>>
       ELSE IF oob \/ (combine /\ badslice)
       THEN \* an index is out of bounds: the kernel panics
            /\ panicked' = TRUE
            /\ inten' = disable_interrupts(inten)
            /\ pending' = FALSE
            /\ UNCHANGED <<driver, event_endecb, ecb_running,
                           nstarted, ncallbacks, cb, overrun>>
       ELSE /\ current_idx' = cur1
            /\ ECB_DATA' = data1
            /\ keystream' = ks1
            /\ IF more
               THEN /\ StartEcb
                    /\ overrun' = (overrun \/ ecb_running)
                    /\ pending' = Latch(FALSE, inten', event_endecb', event_errorecb)
                    /\ nstarted' = nstarted + 1
                    /\ UNCHANGED <<input, output, ncallbacks, cb>>
               ELSE /\ inten' = disable_interrupts(inten)
                    /\ pending' = FALSE
                    /\ IF combine
                       THEN /\ input' = None
                            /\ output' = None
                            /\ IF client
                               THEN /\ ncallbacks' = ncallbacks + 1
                                    /\ cb' = CryptDone(input, buf)
                               ELSE UNCHANGED <<ncallbacks, cb>>
                       ELSE UNCHANGED <<input, output, ncallbacks, cb>>
                    /\ UNCHANGED <<event_endecb, ecb_running, nstarted, overrun>>
            /\ UNCHANGED <<start_idx, end_idx, client, panicked>>
    /\ ret' = NoRet
    /\ UNCHANGED <<event_errorecb, ecbdataptr, prev, naccepted>>

(***************************************************************************)
(* The ECB peripheral.  A block operation reads the key and the cleartext  *)
(* through ECBDATAPTR, writes the ciphertext behind them and sets          *)
(* EVENTS_ENDECB; on an error it sets EVENTS_ERRORECB and writes nothing.  *)
(***************************************************************************)
HwComplete ==
    /\ ~panicked
    /\ ecb_running
    /\ ecbdataptr
    /\ ECB_DATA' = EcbBlock(ECB_DATA)
    /\ event_endecb' = 1
    /\ ecb_running' = FALSE
    /\ pending' = Latch(pending, inten, 1, event_errorecb)
    /\ ret' = NoRet
    /\ UNCHANGED <<keystream, current_idx, start_idx, end_idx, input, output,
                   client, event_errorecb, inten, ecbdataptr, panicked, ghost>>

HwFault ==
    /\ ~panicked
    /\ ecb_running
    /\ Budget
    /\ event_errorecb' = 1
    /\ ecb_running' = FALSE
    /\ pending' = Latch(pending, inten, event_endecb, 1)
    /\ ret' = NoRet
    /\ req' = Touched
    /\ ndisturb' = ndisturb + 1
    /\ UNCHANGED <<driver, event_endecb, inten, ecbdataptr, panicked,
                   nstarted, ncallbacks, cb, prev, overrun, naccepted>>

(***************************************************************************)
(* The kernel: it calls handle_interrupt for a pending interrupt.          *)
(***************************************************************************)
HandleInterrupt ==
    /\ pending
    /\ handle_interrupt
    /\ UNCHANGED <<req, ndisturb>>

\* handle_interrupt is called with no interrupt of the peripheral pending
SpuriousInterrupt ==
    /\ ~pending
    /\ Budget
    /\ handle_interrupt
    /\ req' = IF ~InFlight /\ req.valid
              THEN [req EXCEPT !.idle_irq = TRUE]
              ELSE Touched
    /\ ndisturb' = ndisturb + 1

(***************************************************************************)
(* The client.  The HIL asks for enable before any other method, and the   *)
(* client registers itself, if it does, before its first request.  A       *)
(* client that follows the protocol configures the engine and calls crypt  *)
(* only while no request is in flight, with a destination of DestLen bytes *)
(* and a source of at least stop_index - start_index bytes.                *)
(***************************************************************************)
Enable == enable

SetClient ==
    /\ ecbdataptr
    /\ naccepted = 0
    /\ set_client

SetKey ==
    /\ ecbdataptr
    /\ ~InFlight
    /\ \E key \in GoodKeys : set_key(key)
    /\ UNCHANGED <<req, ndisturb>>

SetIv ==
    /\ ecbdataptr
    /\ ~InFlight
    /\ \E iv \in GoodIvs : set_iv(iv)
    /\ UNCHANGED <<req, ndisturb>>

\* the source buffers the client has for a range: its plaintext, or the bytes
\* the last callback returned in the range of its request
SourceArgs(r) ==
    LET id == 2 * naccepted + 1
    IN  {Some(id, Plain)}
        \cup (IF /\ req.valid /\ cb.some /\ ~InFlight
                 /\ RangeLen(r) = req.end - req.start /\ RangeLen(r) > 0
              THEN {Some(id, Slice(cb.dest.data, req.start, req.end))}
              ELSE {})

DestArg == Some(2 * naccepted + 2, FreshDest)

Crypt ==
    /\ ecbdataptr
    /\ ~InFlight
    /\ Budget
    /\ \E r \in Ranges : \E source \in SourceArgs(r) :
          /\ Accepts(source, r[1], r[2])
          /\ crypt(source, DestArg, r[1], r[2])
    /\ UNCHANGED ndisturb

\* calls the engine rejects, at any time
SetKeyBad ==
    /\ ecbdataptr
    /\ \E key \in BadKeys : set_key(key)
    /\ UNCHANGED <<req, ndisturb>>

SetIvBad ==
    /\ ecbdataptr
    /\ \E iv \in BadIvs : set_iv(iv)
    /\ UNCHANGED <<req, ndisturb>>

CryptRejected ==
    /\ ecbdataptr
    /\ \E r \in Ranges : \E source \in {None, Some(2 * naccepted + 1, Plain)} :
          /\ ~Accepts(source, r[1], r[2])
          /\ crypt(source, DestArg, r[1], r[2])
    /\ UNCHANGED ndisturb

\* calls outside the protocol: they touch a request in flight
SetKeyInFlight ==
    /\ ecbdataptr
    /\ InFlight
    /\ Budget
    /\ \E key \in GoodKeys : set_key(key)
    /\ req' = Touched
    /\ ndisturb' = ndisturb + 1

SetIvInFlight ==
    /\ ecbdataptr
    /\ InFlight
    /\ Budget
    /\ \E iv \in GoodIvs : set_iv(iv)
    /\ req' = Touched
    /\ ndisturb' = ndisturb + 1

CryptInFlight ==
    /\ ecbdataptr
    /\ InFlight
    /\ Budget
    /\ \E r \in Ranges :
          /\ Accepts(Some(2 * naccepted + 1, Plain), r[1], r[2])
          /\ crypt(Some(2 * naccepted + 1, Plain), DestArg, r[1], r[2])
    /\ UNCHANGED ndisturb

Disable ==
    /\ ecbdataptr
    /\ InFlight
    /\ Budget
    /\ disable
    /\ req' = [Touched EXCEPT !.disabled = TRUE]
    /\ ndisturb' = ndisturb + 1

(***************************************************************************)
(* Specifications                                                          *)
(***************************************************************************)
\* the client follows the protocol and the peripheral completes every block
Protocol ==
    \/ Enable
    \/ SetClient
    \/ SetKey
    \/ SetIv
    \/ Crypt
    \/ HwComplete
    \/ HandleInterrupt

Next ==
    \/ Protocol
    \/ SetKeyBad
    \/ SetIvBad
    \/ CryptRejected

Spec == Init /\ [][Next]_vars

\* the same, with calls and events outside the protocol
NextEnv ==
    \/ Protocol
    \/ SetKeyInFlight
    \/ SetIvInFlight
    \/ CryptInFlight
    \/ Disable
    \/ HwFault
    \/ SpuriousInterrupt

SpecEnv == Init /\ [][NextEnv]_vars

\* the protocol, with a peripheral that completes every block it is started
\* on and a kernel that services every pending interrupt
SpecFair ==
    /\ Init
    /\ [][Protocol]_vars
    /\ WF_vars(HwComplete)
    /\ WF_vars(HandleInterrupt)

(***************************************************************************)
(* Properties                                                              *)
(***************************************************************************)
\* the request req was accepted from a client that had registered itself, with
\* the engine idle, and nothing outside the protocol has happened to it
ReqOk == req.valid /\ req.clean /\ req.client

ReqLen == req.end - req.start

\* C1: an accepted, undisturbed request of a registered client gets crypt_done
\* exactly once: never twice, not zero times once the engine has let go of
\* its buffers, and never a kernel that has stopped before the callback; the
\* callback hands back the two buffers of the call.
C1_CallbackExactlyOnce ==
    ReqOk =>
        /\ ncallbacks <= 1
        /\ ~panicked
        /\ ~InFlight => ncallbacks = 1
        /\ ncallbacks = 1 =>
              /\ cb.source.id = req.source.id
              /\ cb.dest.id = req.dest.id

\* C2: when the callback of an undisturbed request of L >= 1 bytes fires,
\* exactly ceil(L / 16) block operations have been started for it and the
\* counter field is the counter at crypt time plus ceil(L / 16).
C2_BlocksAndCounter ==
    [][(ncallbacks' = ncallbacks + 1 /\ ReqOk /\ ReqLen >= 1) =>
          /\ nstarted' = Blocks(ReqLen)
          /\ CtrOf(ECB_DATA') = CtrPlus(req.ctr0, Blocks(ReqLen))]_vars

\* C3: what crypt_done hands back: destination byte i of [start, end) is
\* keystream[i - start] XOR source[i - start], every other destination byte
\* and the source buffer are as they were given.
C3_XorResult ==
    cb.some =>
        /\ DOMAIN cb.dest.data = DOMAIN req.dest.data
        /\ \A i \in DOMAIN cb.dest.data :
              cb.dest.data[i] =
                  IF i >= req.start /\ i < req.end
                  THEN Xor(keystream[i - req.start], req.source.data[i - req.start])
                  ELSE req.dest.data[i]
        /\ cb.source = req.source

C3_Witness ==
    /\ cb.some
    /\ req.start = 16
    /\ req.end = 32
    /\ req.key0 = KeyA

\* C4: at completion of an undisturbed request, block b of the accumulator,
\* cut at the request length, is the ECB output for the key and the counter
\* at crypt time plus b.
C4_CtrKeystream ==
    (cb.some /\ req.clean) =>
        \A b \in 0..(Blocks(ReqLen) - 1) :
            LET blk == AES128_ECB_Encrypt(req.key0, CtrPlus(req.ctr0, b))
            IN  \A j \in 0..(AES128_BLOCK_SIZE - 1) :
                    AES128_BLOCK_SIZE * b + j < ReqLen =>
                        keystream[AES128_BLOCK_SIZE * b + j] = blk[j]

C4_Witness ==
    /\ cb.some
    /\ req.clean
    /\ ReqLen = MAX_LENGTH
    /\ req.key0 = KeyA
    /\ req.ctr0 = IvCarry

\* C5: a crypt call that returns INVAL had no source; it returns the absent
\* source and the destination it was given, and changes nothing in the engine,
\* the peripheral or the request in flight.  A call with a source never
\* returns INVAL, and an accepted call has a source.
C5_NoSource ==
    [][/\ (ret'.op = "crypt" /\ ~ret'.accepted /\ ret'.err = "INVAL") =>
             /\ ret'.source = None
             /\ ret'.dest = DestArg
             /\ UNCHANGED <<driver, regs, ghost>>
       /\ (ret'.op = "crypt" /\ ~ret'.accepted /\ ret'.err = "SIZE") =>
             ret'.source.some
       /\ (ret'.op = "crypt" /\ ret'.accepted) => input'.some]_vars

C5_Witness ==
    /\ ret.op = "crypt"
    /\ ~ret.accepted
    /\ ret.err = "INVAL"
    /\ InFlight
    /\ current_idx = 32

\* C6: an accepted crypt call has a source and a length of at most 128; it
\* holds both buffers, has the cursor at 0, start and end recorded and the
\* first block operation started.  A call that returns SIZE has a length above
\* 128, returns both buffers and changes nothing.  (Lengths are those of calls
\* with stop_index >= start_index.)
C6_SizeCheck ==
    [][/\ (ret'.op = "crypt" /\ ret'.accepted) =>
             /\ req'.end >= req'.start
             /\ req'.end - req'.start <= MAX_LENGTH
             /\ req'.source = Some(2 * naccepted + 1, req'.source.data)
             /\ req'.dest = DestArg
             /\ input' = req'.source
             /\ output' = req'.dest
             /\ current_idx' = 0
             /\ start_idx' = req'.start
             /\ end_idx' = req'.end
             /\ ecb_running'
             /\ event_endecb' = 0
             /\ nstarted' = 1
       /\ (ret'.op = "crypt" /\ ~ret'.accepted /\ ret'.err = "SIZE") =>
             /\ ret'.stop >= ret'.start => ret'.stop - ret'.start > MAX_LENGTH
             /\ ret'.source = Some(2 * naccepted + 1, Plain)
             /\ ret'.dest = DestArg
             /\ UNCHANGED <<driver, regs, ghost>>]_vars

C6_Witness ==
    /\ ret.op = "crypt"
    /\ ~ret.accepted
    /\ ret.err = "SIZE"
    /\ ret.stop - ret.start = MAX_LENGTH + 1
    /\ InFlight
    /\ ReqLen = MAX_LENGTH

\* C7: set_key and set_iv with a length other than 16 return INVAL and change
\* nothing, the shared buffer included; with 16 bytes they return Ok.
C7_BadLength ==
    [][/\ ret'.op = "set_key" =>
             IF ret'.len # AES128_KEY_SIZE
             THEN ret'.result = "INVAL" /\ UNCHANGED <<driver, regs, ghost>>
             ELSE ret'.result = "Ok"
       /\ ret'.op = "set_iv" =>
             IF ret'.len # AES128_BLOCK_SIZE
             THEN ret'.result = "INVAL" /\ UNCHANGED <<driver, regs, ghost>>
             ELSE ret'.result = "Ok"]_vars

C7_Witness ==
    /\ ret.op = "set_key"
    /\ ret.result = "INVAL"
    /\ ret.len = 15
    /\ KeyOf(ECB_DATA) = KeyA
    /\ CtrOf(ECB_DATA) = IvCarry

\* C8: an accepted, undisturbed request of a registered client is eventually
\* completed: crypt_done has been called and the engine holds no buffers.
C8_Completes ==
    (ReqOk /\ InFlight) ~> (~InFlight /\ ncallbacks = 1)

\* C9: a request that runs crypt on the bytes an earlier request of the same
\* length produced, from the same key and the same initial counter, returns
\* the earlier request's plaintext in its destination range.
C9_RoundTrip ==
    (/\ cb.some
     /\ req.clean
     /\ prev.valid
     /\ prev.clean
     /\ prev.done = 1
     /\ prev.key0 = req.key0
     /\ prev.ctr0 = req.ctr0
     /\ ReqLen = prev.end - prev.start
     /\ ReqLen >= 1
     /\ Slice(req.source.data, 0, ReqLen) = prev.result)
    => Slice(cb.dest.data, req.start, req.end) = prev.plain

C9_Witness ==
    /\ cb.some
    /\ req.clean
    /\ prev.valid
    /\ prev.clean
    /\ prev.done = 1
    /\ prev.key0 = req.key0
    /\ prev.ctr0 = req.ctr0
    /\ req.ctr0 = IvCarry
    /\ ReqLen = prev.end - prev.start
    /\ ReqLen = MAX_LENGTH
    /\ Slice(req.source.data, 0, ReqLen) = prev.result
    /\ prev.result # prev.plain

\* C10: for an undisturbed request a block operation is started only while no
\* block operation is running, and by the accepting crypt call or with the
\* completion event of the block before set.
C10_OneOutstanding ==
    [][(/\ req'.valid
        /\ req'.clean
        /\ nstarted' # nstarted \/ naccepted' # naccepted)
       => /\ ~ecb_running
          /\ ecb_running'
          /\ ~overrun'
          /\ ret'.op = "crypt" \/ event_endecb = 1]_vars

C10_Witness ==
    /\ req.valid
    /\ req.clean
    /\ nstarted = 8
    /\ ecb_running
    /\ ~overrun

\* C11: an accepted crypt call puts the cursor at 0; within a request the
\* cursor never goes back and moves by at most one block per step; the bytes
\* of the accumulator that change in a step are those from the old cursor up
\* to the new one, and they are the leading bytes of the peripheral's output
\* field; the engine lets go of the buffers and calls crypt_done only in a
\* step that leaves the cursor at or beyond end.
C11_CursorOrder ==
    [][/\ naccepted' # naccepted => current_idx' = 0
       /\ naccepted' = naccepted =>
             /\ current_idx' >= current_idx
             /\ current_idx' - current_idx <= AES128_BLOCK_SIZE
             /\ \A i \in 0..(MAX_LENGTH - 1) :
                   keystream'[i] =
                       IF i >= current_idx /\ i < current_idx'
                       THEN ECB_DATA[PLAINTEXT_END + i - current_idx]
                       ELSE keystream[i]
       /\ (ncallbacks' = ncallbacks + 1 \/ (InFlight /\ ~InFlight')) =>
             current_idx' >= end_idx']_vars

C11_Witness ==
    /\ InFlight
    /\ req.clean
    /\ req.key0 = KeyA
    /\ current_idx = 2 * AES128_BLOCK_SIZE
    /\ end_idx = 40
    /\ ecb_running


\* C12: a request that was in flight when disable was called is never
\* resolved: crypt_done is not called for it in any later state.
C12_DisabledNeverResolves ==
    (req.valid /\ req.disabled) => ncallbacks = 0


\* C13: the interrupt is enabled only while a block operation that was issued
\* is running or its completion is pending and not yet handled; a step enables
\* it only by issuing a block operation, with the completion event cleared; a
\* run of the handler leaves it disabled unless that run issues the next block
\* operation, so it is disabled after the final block and the callback.
C13_InterruptEnabled ==
    [][/\ inten' =>
             /\ nstarted' >= 1
             /\ \/ ecb_running'
                \/ pending' /\ (event_endecb' = 1 \/ event_errorecb' = 1)
       /\ (inten' /\ ~inten) =>
             /\ nstarted' # nstarted \/ naccepted' # naccepted
             /\ event_endecb' = 0
             /\ ecb_running'
       /\ ((HandleInterrupt \/ SpuriousInterrupt) /\ inten') =>
             /\ nstarted' = nstarted + 1
             /\ event_endecb' = 0
             /\ ecb_running'
       /\ ncallbacks' = ncallbacks + 1 => ~inten']_vars

C13_Witness ==
    /\ cb.some
    /\ req.clean
    /\ nstarted = 3
    /\ current_idx = 40
    /\ event_endecb = 1
    /\ ~inten
    /\ ~pending


\* C14: a set_key of 16 bytes changes the key field of the shared buffer and
\* nothing else, a set_iv of 16 bytes the counter field and nothing else:
\* the rest of the buffer, cursor, range, accumulator, held buffers and every
\* register stay as they are.  An accepted crypt call leaves the shared buffer
\* as it finds it, and the first block of a request encrypts the counter field
\* as it was when the call was made.
C14_KeyIvFrame ==
    [][/\ (ret'.op = "set_key" /\ ret'.result = "Ok") =>
             /\ KeyOf(ECB_DATA') \in GoodKeys
             /\ \A i \in AES128_KEY_SIZE..(ECB_DATA_LEN - 1) :
                   ECB_DATA'[i] = ECB_DATA[i]
             /\ UNCHANGED <<keystream, current_idx, start_idx, end_idx, input,
                            output, client, regs, nstarted, ncallbacks, cb>>
       /\ (ret'.op = "set_iv" /\ ret'.result = "Ok") =>
             /\ CtrOf(ECB_DATA') \in GoodIvs
             /\ \A i \in 0..(ECB_DATA_LEN - 1) :
                   (i < PLAINTEXT_START \/ i >= PLAINTEXT_END) =>
                       ECB_DATA'[i] = ECB_DATA[i]
             /\ UNCHANGED <<keystream, current_idx, start_idx, end_idx, input,
                            output, client, regs, nstarted, ncallbacks, cb>>
       /\ (ret'.op = "crypt" /\ ret'.accepted) =>
             /\ ECB_DATA' = ECB_DATA
             /\ req'.ctr0 = CtrOf(ECB_DATA)
       /\ (HwComplete /\ req.clean /\ nstarted = 1) =>
             /\ CtrOf(ECB_DATA) = req.ctr0
             /\ Slice(ECB_DATA', PLAINTEXT_END, ECB_DATA_LEN) =
                    AES128_ECB_Encrypt(req.key0, req.ctr0)]_vars

\* a second request, made with no set_iv, on the counter the first one left
C14_Witness ==
    /\ req.valid
    /\ req.clean
    /\ prev.valid
    /\ req.key0 = KeyA
    /\ prev.ctr0 = Zeros(AES128_BLOCK_SIZE)
    /\ req.ctr0 = CtrPlus(Zeros(AES128_BLOCK_SIZE), 1)
    /\ current_idx > 0


\* C15: a run of the handler that adds keystream bytes leaves the counter
\* field one higher as a 128-bit big-endian number (the all-255 counter
\* becomes all zero) and the key field and the output field as they were; a
\* run that adds no byte leaves the whole shared buffer as it was.
C15_CounterIncrement ==
    [][/\ (naccepted' = naccepted /\ current_idx' > current_idx) =>
             /\ CtrOf(ECB_DATA') = CtrPlus(CtrOf(ECB_DATA), 1)
             /\ ECB_DATA'[PLAINTEXT_END - 1] =
                    (ECB_DATA[PLAINTEXT_END - 1] + 1) % ByteMod
             /\ \A i \in 0..(ECB_DATA_LEN - 1) :
                   (i < PLAINTEXT_START \/ i >= PLAINTEXT_END) =>
                       ECB_DATA'[i] = ECB_DATA[i]
       /\ ((HandleInterrupt \/ SpuriousInterrupt)
           /\ current_idx' = current_idx) =>
             ECB_DATA' = ECB_DATA]_vars

C15_Witness ==
    /\ req.valid
    /\ req.clean
    /\ req.ctr0 = IvMax
    /\ req.key0 = KeyA
    /\ current_idx = AES128_BLOCK_SIZE
    /\ CtrOf(ECB_DATA) = Zeros(AES128_BLOCK_SIZE)
    /\ KeyOf(ECB_DATA) = KeyA


\* C16: a run of the handler with no request held and the cursor at or beyond
\* end adds no byte: cursor, range, shared buffer, accumulator and held
\* buffers stay as they are, no block operation is started, the interrupt is
\* left disabled and crypt_done is not called.
C16_SpuriousIdle ==
    [][((HandleInterrupt \/ SpuriousInterrupt)
        /\ ~InFlight /\ current_idx >= end_idx) =>
          /\ UNCHANGED <<driver, event_endecb, event_errorecb, ecbdataptr,
                         ecb_running, nstarted, ncallbacks, cb, panicked>>
          /\ ~inten'
          /\ ~pending']_vars

\* the handler has run after the request was resolved, with the completion
\* event of its last block still set
C16_Witness ==
    /\ req.valid
    /\ req.idle_irq
    /\ ~InFlight
    /\ cb.some
    /\ event_endecb = 1
    /\ current_idx = 40
    /\ end_idx = 40


\* C17: a run of the handler for a hardware error, with EVENTS_ERRORECB set
\* and EVENTS_ENDECB not set, calls no callback and returns nothing to the
\* client, leaves cursor, range, shared buffer, accumulator and held buffers
\* as they are, starts no block operation and leaves the interrupt disabled:
\* a request in flight stays in flight.
C17_ErrorNotReported ==
    [][((HandleInterrupt \/ SpuriousInterrupt)
        /\ event_errorecb = 1 /\ event_endecb # 1) =>
          /\ UNCHANGED <<driver, event_endecb, event_errorecb, ecbdataptr,
                         ecb_running, nstarted, ncallbacks, cb, panicked>>
          /\ ret' = NoRet
          /\ ~inten'
          /\ ~pending']_vars

C17_Witness ==
    /\ InFlight
    /\ req.client
    /\ event_errorecb = 1
    /\ event_endecb = 0
    /\ nstarted = 2
    /\ current_idx = AES128_BLOCK_SIZE
    /\ ncallbacks = 0
    /\ ~ecb_running
    /\ ~inten
    /\ ~pending


\* C18: a crypt call with a source and a length of at most 128, made while a
\* request is in flight, is accepted: the engine then holds the buffers of
\* the new call, has its range, the cursor at 0 and a block operation issued
\* with the interrupt enabled.  From then on crypt_done is called at most
\* once, with the buffers of the new call, never with those of the request
\* it replaced.
C18_SecondCrypt ==
    [][/\ (ret'.op = "crypt" /\ InFlight) =>
             /\ ret'.accepted
             /\ req'.overlap
             /\ input' = req'.source
             /\ output' = req'.dest
             /\ input'.id # input.id
             /\ output'.id # output.id
             /\ current_idx' = 0
             /\ start_idx' = req'.start
             /\ end_idx' = req'.end
             /\ nstarted' = 1
             /\ ncallbacks' = 0
             /\ ecb_running'
             /\ inten'
       /\ (req'.valid /\ req'.overlap) =>
             /\ ncallbacks' <= 1
             /\ cb'.some =>
                   /\ ncallbacks' = 1
                   /\ cb'.source.id = 2 * naccepted' - 1
                   /\ cb'.dest.id = 2 * naccepted'
                   /\ cb'.source.id = req'.source.id
                   /\ cb'.dest.id = req'.dest.id]_vars

C18_Witness ==
    /\ req.valid
    /\ req.overlap
    /\ prev.valid
    /\ prev.done = 0
    /\ prev.end = MAX_LENGTH
    /\ cb.some
    /\ ncallbacks = 1
    /\ current_idx = 40


\* C19: the cursor never exceeds the 128 bytes of the accumulator and the
\* handler never writes the accumulator at an index of 128 or more (the write
\* that would is an index out of bounds, on which the kernel panics).
C19_AccumulatorInBounds ==
    /\ current_idx <= MAX_LENGTH
    /\ ~panicked


====
